---- MODULE Spec2Model ----
(***************************************************************************)
(* The house-pricing scraper notebook web_scraping/notebooks/              *)
(* web_scraping.ipynb: the link crawl and the per-listing extraction of    *)
(* scrape_website, and the notebook's cells that save, reload, merge and   *)
(* clean the CSV dataset.                                                  *)
(*                                                                         *)
(* Text is modelled by strings, with Python's substring test, strip() and  *)
(* concatenation computed character by character.  A DataFrame is the      *)
(* sequence of its rows; a cell of a row is a tagged value (a Python str,  *)
(* NaN, an int or a float), so that what pandas reads back from the CSV    *)
(* file is not what was written into it.                                   *)
(***************************************************************************)
EXTENDS Integers, Sequences, FiniteSets, TLC

VARIABLES
    pc,                \* position of the running code
    caller,            \* who called scrape_website / extract_property_data
    error,             \* the exception that ended the run ("" while none)
    neighborhoods,     \* config["NEIGHBORHOODS"]
    max_pages,         \* scrape_website's max_pages argument
    page,              \* loop variable of the link-collection loop
    all_links,         \* scrape_website's all_links
    todo,              \* links the listing loop has not visited yet
    listings,          \* scrape_website's listings
    fetched,           \* history: page numbers requested, in order
    page_links,        \* history: the links each parsed page yielded
    extracted,         \* history: document and data of each visited link
    accepted_raw,      \* history: the extracted location text of each accepted listing
    site,              \* index of the website the cell's loop is at
    all_data,          \* the cell's all_data list (one frame per website)
    all_data_df,       \* cell 9's concatenated frame
    existing_data_df,  \* cell 13's frame read from the file
    new_data_df,       \* cell 13's new batch after the location pass
    combined_df,       \* cell 13's merged frame
    cleaned,           \* cell 15's house_pricing_data_cleaned
    file,              \* ../data/house_pricing_data.csv
    run,               \* number of notebook runs started
    mode,              \* how the current run executes the notebook
    file_at_start,     \* history: the file when the current run started
    file_merged        \* history: the file cell 13 wrote in the current run

vars == <<pc, caller, error, neighborhoods, max_pages, page, all_links, todo,
          listings, fetched, page_links, extracted, accepted_raw, site,
          all_data, all_data_df, existing_data_df, new_data_df, combined_df,
          cleaned, file, run, mode, file_at_start, file_merged>>

scrapeVars == <<page, all_links, todo, listings, fetched, page_links, extracted>>
frameVars == <<all_data_df, existing_data_df, new_data_df, combined_df, cleaned>>
runVars == <<run, mode, file_at_start, file_merged>>

---------------------------------------------------------------------------
(* Bounds of the model *)

\* largest max_pages a direct call of scrape_website is given
MaxPagesArg == 3
\* pages of a site that can hold listing containers; later pages are empty
MaxSitePages == 2
\* listing containers on one page
MaxContainers == 2
\* links one crawl collects
MaxLinks == 2
\* notebook runs
MaxRuns == 2

(* Program constants *)

\* the websites of config["websites"], in the order of the configuration
Websites == <<"website">>

NA == "N/A"
Alexandria == "Alexandria"
DefaultMaxPages == 40
Columns == {"price", "area", "bedrooms", "bathrooms", "location"}

---------------------------------------------------------------------------
(* Python str operations *)

Whitespace == {" ", "\n", "\t"}

\* sub in s
In(sub, s) ==
    \E i \in 1..(Len(s) - Len(sub) + 1) : SubSeq(s, i, i + Len(sub) - 1) = sub

\* s.count(sub) for a non-empty sub without self-overlap
Count(sub, s) ==
    Cardinality({i \in 1..(Len(s) - Len(sub) + 1) :
                    SubSeq(s, i, i + Len(sub) - 1) = sub})

RECURSIVE lstrip(_)
lstrip(s) ==
    IF Len(s) > 0 /\ SubSeq(s, 1, 1) \in Whitespace
    THEN lstrip(SubSeq(s, 2, Len(s)))
    ELSE s

RECURSIVE rstrip(_)
rstrip(s) ==
    IF Len(s) > 0 /\ SubSeq(s, Len(s), Len(s)) \in Whitespace
    THEN rstrip(SubSeq(s, 1, Len(s) - 1))
    ELSE s

\* s.strip()
strip(s) == rstrip(lstrip(s))

---------------------------------------------------------------------------
(* Parsed documents *)

\* what soup.find(...) returns: an element with its text, or None
NoElem == [found |-> FALSE, text |-> ""]
Elem(t) == [found |-> TRUE, text |-> t]

\* a text-anchor field: whether a span with the label text exists, and the
\* span find_next("span") returns from it (None when no span follows)
NoLabel == [label |-> FALSE, next |-> NoElem]
Label(e) == [label |-> TRUE, next |-> e]

AnchorFields == {"area", "bedrooms", "bathrooms"}

PriceElems == {NoElem, Elem(" 950,000 EGP\n")}
AreaSpans == {NoLabel, Label(NoElem), Label(Elem("120 "))}
BedroomSpans == {NoLabel, Label(NoElem), Label(Elem("3"))}
BathroomSpans == {NoLabel, Label(NoElem), Label(Elem("2"))}
LocationTexts ==
    {"Smouha", " Smouha, Alexandria ", "Alexandria", "Cairo", "Nasr City, Cairo",
     "Sidi Gaber, alexandria", "Smouha - Alexandri", "Alexandria, Smouha, Alexandria",
     "N/A", "", "Sidi Gaber\n"}
LocationElems == {NoElem} \cup {Elem(t) : t \in LocationTexts}

\* the documents a direct call of extract_property_data is given
Documents ==
    [price : PriceElems, area : AreaSpans, bedrooms : BedroomSpans,
     bathrooms : BathroomSpans, location : LocationElems]

\* config["NEIGHBORHOODS"] of the configurations a direct call is given
NeighborhoodConfigs ==
    {{"Smouha", "Sidi Gaber"}, {"Sidi Gaber"}, {"A"}, {}}

\* config["NEIGHBORHOODS"] of the configuration the notebook loads
NotebookNeighborhoods == {"Smouha", "Sidi Gaber"}

---------------------------------------------------------------------------
(* extract_property_data *)

\* price_elem.text.strip() if price_elem else "N/A"
AttrField(e) == IF e.found THEN strip(e.text) ELSE NA

\* label.find_next("span").text.strip() if label else "N/A"
\* (defined only when AnchorRaises is false)
AnchorField(f) == IF f.label THEN strip(f.next.text) ELSE NA

\* find_next("span") returned None: None.text raises AttributeError
AnchorRaises(f) == f.label /\ ~f.next.found

ExtractRaises(doc) == \E f \in AnchorFields : AnchorRaises(doc[f])

\* a rule that appends ", Alexandria" without looking for it in the text
LocationRuleAppendsAlways(location, nbs) ==
    IF \E n \in nbs : In(n, location)
    THEN location \o ", Alexandria"
    ELSE NA

\* "Ensure the location is in Alexandria"
LocationRule(location, nbs) ==
    IF \E n \in nbs : In(n, location)
    THEN IF ~In(Alexandria, location)
         THEN location \o ", Alexandria"
         ELSE location
    ELSE NA

\* the location text as extracted, before the neighbourhood rule
RawLocation(doc) == AttrField(doc.location)

extract_property_data(doc, nbs) ==
    [price     |-> AttrField(doc.price),
     area      |-> AnchorField(doc.area),
     bedrooms  |-> AnchorField(doc.bedrooms),
     bathrooms |-> AnchorField(doc.bathrooms),
     location  |-> LocationRule(RawLocation(doc), nbs)]

---------------------------------------------------------------------------
(* get_property_links *)

\* a listing div: without an <a>, with an <a href>, or with an <a> that has
\* no href attribute
ContainerKinds == {"no_a", "a_href", "a_nohref"}

PageContents == UNION {[1..n -> ContainerKinds] : n \in 0..MaxContainers}

\* the containers page p of the site can hold
SitePage(p) == IF p > MaxSitePages THEN {<<>>} ELSE PageContents

\* div.find("a")["href"] raises KeyError on an <a> without href
LinksRaise(divs) == \E i \in 1..Len(divs) : divs[i] = "a_nohref"

\* [div.find("a")["href"] for div in listing_divs if div.find("a")];
\* the href of container i of page p is modelled by <<p, i>>
get_property_links(p, divs) ==
    LET F[i \in 0..Len(divs)] ==
            IF i = 0 THEN <<>>
            ELSE IF divs[i] = "a_href" THEN Append(F[i - 1], <<p, i>>)
                 ELSE F[i - 1]
    IN F[Len(divs)]

---------------------------------------------------------------------------
(* pandas frames and the CSV file *)

\* cells of a frame
Str(s) == [t |-> "str", v |-> s]
NaN == [t |-> "nan", v |-> ""]
IntCell(s) == [t |-> "int", v |-> s]
FloatCell(s) == [t |-> "float", v |-> s]

\* pd.DataFrame(): no columns, no rows
EmptyFrame == [columns |-> {}, rows |-> <<>>]

\* df.empty
Empty(df) == df.columns = {} \/ df.rows = <<>>

\* pd.DataFrame(listings): the dicts' str values, one row per dict
DataFrame(ls) ==
    IF ls = <<>> THEN EmptyFrame
    ELSE [columns |-> Columns,
          rows |-> [i \in 1..Len(ls) |-> [c \in Columns |-> Str(ls[i][c])]]]

RECURSIVE ConcatRows(_)
ConcatRows(frames) ==
    IF frames = <<>> THEN <<>>
    ELSE Head(frames).rows \o ConcatRows(Tail(frames))

\* pd.concat(frames): a frame without rows adds no cell to fill
concat(frames) ==
    [columns |-> UNION {frames[i].columns : i \in 1..Len(frames)},
     rows |-> ConcatRows(frames)]

\* the file: absent, without any column line, or a header and text rows
Absent == [kind |-> "absent"]
NoColumns == [kind |-> "empty"]
Csv(rows) == [kind |-> "csv", rows |-> rows]

\* the text to_csv writes for a cell (na_rep = "", float repr)
CellText(x) ==
    CASE x.t = "str" -> x.v
      [] x.t = "nan" -> ""
      [] x.t = "int" -> x.v
      [] x.t = "float" -> x.v \o ".0"

\* df.to_csv(path, index=False)
to_csv(df) ==
    IF df.columns = {} THEN NoColumns
    ELSE Csv([i \in 1..Len(df.rows) |->
                 [c \in Columns |-> CellText(df.rows[i][c])]])

\* the cell texts read_csv takes for a missing value (among its defaults)
NAValues == {"", "N/A", "NA", "NaN", "nan", "n/a", "null", "NULL", "#N/A", "<NA>"}

Digits == {"0", "1", "2", "3", "4", "5", "6", "7", "8", "9"}

\* the numeric texts of the model: digits, and digits followed by ".0"
IsIntText(s) ==
    Len(s) > 0 /\ \A i \in 1..Len(s) : SubSeq(s, i, i) \in Digits
IsFloatText(s) ==
    /\ Len(s) > 2
    /\ SubSeq(s, Len(s) - 1, Len(s)) = ".0"
    /\ IsIntText(SubSeq(s, 1, Len(s) - 2))

\* the dtype read_csv infers for column c of the text rows
ColumnKind(rows, c) ==
    LET texts == {rows[i][c] : i \in 1..Len(rows)}
        given == texts \ NAValues
    IN IF \E s \in given : ~(IsIntText(s) \/ IsFloatText(s)) THEN "object"
       ELSE IF texts \cap NAValues = {} /\ \A s \in given : IsIntText(s)
            THEN "int64"
            ELSE "float64"

ParseCell(kind, s) ==
    IF s \in NAValues THEN NaN
    ELSE CASE kind = "object" -> Str(s)
           [] kind = "int64" -> IntCell(s)
           [] kind = "float64" ->
                FloatCell(IF IsFloatText(s) THEN SubSeq(s, 1, Len(s) - 2) ELSE s)

\* pd.read_csv(path) of a file that has a header line
read_csv(f) ==
    [columns |-> Columns,
     rows |-> [i \in 1..Len(f.rows) |->
                  [c \in Columns |-> ParseCell(ColumnKind(f.rows, c), f.rows[i][c])]]]

\* df.drop_duplicates(subset=subset, keep="first"), on the rows
DropRows(rows, subset) ==
    LET key(r) == [c \in subset |-> r[c]]
        F[i \in 0..Len(rows)] ==
            IF i = 0 THEN <<>>
            ELSE IF \E j \in 1..(i - 1) : key(rows[j]) = key(rows[i])
                 THEN F[i - 1]
                 ELSE Append(F[i - 1], rows[i])
    IN F[Len(rows)]

drop_duplicates(df, subset) ==
    [columns |-> df.columns, rows |-> DropRows(df.rows, subset)]

\* a pass that appends ", Alexandria" to every location
AppendAlexandria(x) == x \o ", Alexandria"

\* lambda x: x if "Alexandria" in x else x + ", Alexandria"
EnsureAlexandria(x) == IF In(Alexandria, x) THEN x ELSE x \o ", Alexandria"

\* new_data_df["location"] = new_data_df["location"].apply(...)
LocationPass(df) ==
    [columns |-> df.columns,
     rows |-> [i \in 1..Len(df.rows) |->
                  [df.rows[i] EXCEPT !["location"] = Str(EnsureAlexandria(@.v))]]]

\* "Check for new entries by comparing with existing data"
Merge(existing, new) ==
    IF ~Empty(existing)
    THEN drop_duplicates(concat(<<existing, new>>), Columns)
    ELSE new

---------------------------------------------------------------------------
(* scrape_website *)

\* a loop without the break: every page up to max_pages is requested
NeverBreak(links) == FALSE

\* if not links: break
NoLinks(links) == links = <<>>

\* a loop without the location gate: every extracted listing is kept
AcceptAll(data) == TRUE

\* if data["location"] != "N/A": listings.append(data)
Accept(data) == data.location # NA

\* the detail pages the modelled websites serve
SiteDocs ==
    {[price |-> p, area |-> Label(Elem("120 sqm")), bedrooms |-> b,
      bathrooms |-> Label(Elem("2 baths")), location |-> l] :
        p \in {Elem("950,000 EGP")},
        b \in {Label(Elem("3"))},
        l \in {Elem("Smouha"), Elem("Smouha, Alexandria"), Elem("Cairo")}}
    \cup
    {[price |-> NoElem, area |-> Label(Elem("120 sqm")),
      bedrooms |-> Label(Elem("Studio")), bathrooms |-> Label(Elem("2 baths")),
      location |-> Elem("Smouha")],
     [price |-> Elem("950,000 EGP"), area |-> Label(Elem("120 sqm")),
      bedrooms |-> Label(NoElem), bathrooms |-> Label(Elem("2 baths")),
      location |-> Elem("Smouha")],
     [price |-> Elem("950,000 EGP"), area |-> Label(Elem("120 sqm")),
      bedrooms |-> Label(Elem("Studio")), bathrooms |-> Label(Elem("2 baths")),
      location |-> NoElem]}

\* the documents the detail page of the visited link can be
Served == IF caller = "extract" THEN Documents ELSE SiteDocs

\* scrape_website(config, mp) is entered; range(1, mp + 1) is empty for mp < 1
EnterScrape(mp) ==
    /\ pc' = IF mp >= 1 THEN "links" ELSE "listings"
    /\ max_pages' = mp
    /\ page' = 1
    /\ all_links' = <<>>
    /\ todo' = <<>>
    /\ listings' = <<>>
    /\ fetched' = <<>>
    /\ page_links' = <<>>
    /\ extracted' = <<>>

Raise(e) ==
    /\ pc' = "raised"
    /\ error' = e

\* one iteration of "for page in range(1, max_pages + 1)": the page is
\* requested and parsed; the loop ends on a page without links (break) or
\* after page max_pages
FetchPage ==
    /\ pc = "links"
    /\ \E divs \in SitePage(page) :
        /\ fetched' = Append(fetched, page)
        /\ IF LinksRaise(divs)
           THEN /\ Raise("KeyError")
                /\ UNCHANGED <<page, all_links, todo, page_links>>
           ELSE LET links == get_property_links(page, divs) IN
                /\ Len(all_links) + Len(links) <= MaxLinks
                /\ page_links' = Append(page_links, links)
                /\ UNCHANGED error
                /\ IF NoLinks(links)
                   THEN /\ pc' = "listings"
                        /\ todo' = all_links
                        /\ UNCHANGED <<page, all_links>>
                   ELSE /\ all_links' = all_links \o links
                        /\ page' = page + 1
                        /\ IF page + 1 > max_pages
                           THEN /\ pc' = "listings"
                                /\ todo' = all_links \o links
                           ELSE UNCHANGED <<pc, todo>>
    /\ UNCHANGED <<caller, neighborhoods, max_pages, listings, extracted,
                   accepted_raw, site, all_data, file>>
    /\ UNCHANGED frameVars
    /\ UNCHANGED runVars

\* one iteration of "for link in all_links"
ExtractLink ==
    /\ pc = "listings"
    /\ todo # <<>>
    /\ \E doc \in Served :
        IF ExtractRaises(doc)
        THEN /\ Raise("AttributeError")
             /\ extracted' = Append(extracted, [link |-> Head(todo), doc |-> doc])
             /\ UNCHANGED <<todo, listings, accepted_raw>>
        ELSE LET data == extract_property_data(doc, neighborhoods) IN
             /\ extracted' =
                    Append(extracted, [link |-> Head(todo), doc |-> doc, data |-> data])
             /\ todo' = Tail(todo)
             /\ IF Accept(data)
                THEN /\ listings' = Append(listings, data)
                     /\ accepted_raw' = Append(accepted_raw, RawLocation(doc))
                ELSE UNCHANGED <<listings, accepted_raw>>
             /\ UNCHANGED <<pc, error>>
    /\ UNCHANGED <<caller, neighborhoods, max_pages, page, all_links, fetched,
                   page_links, site, all_data, file>>
    /\ UNCHANGED frameVars
    /\ UNCHANGED runVars

\* requests.get raises in get_property_links or in extract_property_data
FetchFails ==
    /\ \/ pc = "links"
       \/ pc = "listings" /\ todo # <<>>
    /\ Raise("ConnectionError")
    /\ UNCHANGED <<caller, neighborhoods, max_pages, accepted_raw, site,
                   all_data, file>>
    /\ UNCHANGED scrapeVars
    /\ UNCHANGED frameVars
    /\ UNCHANGED runVars

\* return pd.DataFrame(listings), to a direct caller
ScrapeReturn ==
    /\ pc = "listings"
    /\ todo = <<>>
    /\ caller \in {"scrape", "extract"}
    /\ pc' = "returned"
    /\ UNCHANGED <<caller, error, neighborhoods, max_pages, accepted_raw, site,
                   all_data, file>>
    /\ UNCHANGED scrapeVars
    /\ UNCHANGED frameVars
    /\ UNCHANGED runVars

---------------------------------------------------------------------------
(* The notebook's cells *)

\* for website_name, website_config in config["websites"].items():
\*     data = scrape_website(website_config)
CallScrape(cell) ==
    /\ caller' = cell
    /\ site' = 1
    /\ all_data' = <<>>
    /\ accepted_raw' = <<>>
    /\ EnterScrape(DefaultMaxPages)

\* The notebook is run: from its first code cell ("all": cells 9, 11, 13
\* and 15), or from the cell that loads the existing data ("update": cells
\* 13 and 15).  Frames of earlier runs are assigned before they are read.
StartRun ==
    /\ caller = "notebook" \/ caller \in {"cell9", "cell11", "cell13", "cell15"}
    /\ pc \in {"idle", "done", "raised"}
    /\ run < MaxRuns
    /\ run' = run + 1
    /\ file_at_start' = file
    /\ file_merged' = Absent
    /\ error' = ""
    /\ all_data_df' = EmptyFrame
    /\ existing_data_df' = EmptyFrame
    /\ new_data_df' = EmptyFrame
    /\ combined_df' = EmptyFrame
    /\ cleaned' = EmptyFrame
    /\ \/ /\ mode' = "all"
          /\ CallScrape("cell9")
       \/ /\ mode' = "update"
          /\ pc' = "cell13"
          /\ caller' = "cell13"
          /\ site' = 1
          /\ all_data' = <<>>
          /\ accepted_raw' = <<>>
          /\ UNCHANGED <<max_pages, page, all_links, todo, listings, fetched,
                         page_links, extracted>>
    /\ UNCHANGED <<neighborhoods, file>>

\* scrape_website returns pd.DataFrame(listings) to the cell's loop:
\* all_data.append(data), then the next website or the end of the loop
ScrapeReturnToCell ==
    /\ pc = "listings"
    /\ todo = <<>>
    /\ caller \in {"cell9", "cell13"}
    /\ all_data' = Append(all_data, DataFrame(listings))
    /\ IF site < Len(Websites)
       THEN /\ site' = site + 1
            /\ EnterScrape(DefaultMaxPages)
       ELSE /\ pc' = IF caller = "cell9" THEN "cell9_concat" ELSE "cell13_merge"
            /\ page' = 1
            /\ all_links' = <<>>
            /\ listings' = <<>>
            /\ fetched' = <<>>
            /\ page_links' = <<>>
            /\ extracted' = <<>>
            /\ UNCHANGED <<site, max_pages, todo>>
    /\ UNCHANGED <<caller, error, neighborhoods, accepted_raw, file>>
    /\ UNCHANGED frameVars
    /\ UNCHANGED runVars

\* cell 9: all_data_df = pd.concat(all_data, ignore_index=True)
Cell9Concat ==
    /\ pc = "cell9_concat"
    /\ all_data_df' = concat(all_data)
    /\ pc' = "cell11"
    /\ caller' = "cell11"
    /\ UNCHANGED <<error, neighborhoods, max_pages, accepted_raw, site, all_data,
                   existing_data_df, new_data_df, combined_df, cleaned, file>>
    /\ UNCHANGED scrapeVars
    /\ UNCHANGED runVars

\* cell 11: all_data_df.to_csv(output_path, index=False)
Cell11Save ==
    /\ pc = "cell11"
    /\ file' = to_csv(all_data_df)
    /\ pc' = "cell13"
    /\ caller' = "cell13"
    /\ UNCHANGED <<error, neighborhoods, max_pages, accepted_raw, site, all_data>>
    /\ UNCHANGED scrapeVars
    /\ UNCHANGED frameVars
    /\ UNCHANGED runVars

\* cell 13: "Load existing data", then the scraping loop starts
Cell13Load ==
    /\ pc = "cell13"
    /\ IF file.kind = "empty"
       THEN /\ Raise("EmptyDataError")
            /\ UNCHANGED <<caller, existing_data_df, accepted_raw, site, all_data,
                           max_pages>>
            /\ UNCHANGED scrapeVars
       ELSE /\ existing_data_df' =
                    IF file.kind = "csv" THEN read_csv(file) ELSE EmptyFrame
            /\ CallScrape("cell13")
            /\ UNCHANGED error
    /\ UNCHANGED <<neighborhoods, all_data_df, new_data_df, combined_df, cleaned, file>>
    /\ UNCHANGED runVars

\* cell 13: concatenate the new data, "Ensure that "Alexandria" is added to
\* locations if missing", and merge with the existing data
Cell13Merge ==
    /\ pc = "cell13_merge"
    /\ LET new == concat(all_data) IN
       IF "location" \notin new.columns
       THEN /\ Raise("KeyError")
            /\ UNCHANGED <<new_data_df, combined_df>>
       ELSE /\ new_data_df' = LocationPass(new)
            /\ combined_df' = Merge(existing_data_df, LocationPass(new))
            /\ pc' = "cell13_save"
            /\ UNCHANGED error
    /\ UNCHANGED <<caller, neighborhoods, max_pages, accepted_raw, site, all_data,
                   all_data_df, existing_data_df, cleaned, file>>
    /\ UNCHANGED scrapeVars
    /\ UNCHANGED runVars

\* cell 13: combined_df.to_csv(existing_data_path, index=False)
Cell13Save ==
    /\ pc = "cell13_save"
    /\ file' = to_csv(combined_df)
    /\ file_merged' = to_csv(combined_df)
    /\ pc' = "cell15"
    /\ caller' = "cell15"
    /\ UNCHANGED <<error, neighborhoods, max_pages, accepted_raw, site, all_data,
                   run, mode, file_at_start>>
    /\ UNCHANGED scrapeVars
    /\ UNCHANGED frameVars

\* cell 15: read the file, drop the duplicate rows, write the file
Cell15Clean ==
    /\ pc = "cell15"
    /\ cleaned' = drop_duplicates(read_csv(file), Columns)
    /\ file' = to_csv(drop_duplicates(read_csv(file), Columns))
    /\ pc' = "done"
    /\ UNCHANGED <<caller, error, neighborhoods, max_pages, accepted_raw, site,
                   all_data, all_data_df, existing_data_df, new_data_df, combined_df>>
    /\ UNCHANGED scrapeVars
    /\ UNCHANGED runVars

\* what a to_csv that raises can leave of the file: the old file (it could
\* not be opened), or the new text cut short (the file is opened with "w")
CutShort(old, new) ==
    {old, NoColumns} \cup
    (IF new.kind = "csv"
     THEN {Csv(SubSeq(new.rows, 1, k)) : k \in 0..(Len(new.rows) - 1)}
     ELSE {})

\* to_csv raises OSError in cell 11, cell 13 or cell 15
WriteFails ==
    /\ \/ /\ pc = "cell11"
          /\ file' \in CutShort(file, to_csv(all_data_df))
       \/ /\ pc = "cell13_save"
          /\ file' \in CutShort(file, to_csv(combined_df))
       \/ /\ pc = "cell15"
          /\ file' \in CutShort(file, to_csv(drop_duplicates(read_csv(file), Columns)))
    /\ Raise("OSError")
    /\ UNCHANGED <<caller, neighborhoods, max_pages, accepted_raw, site, all_data>>
    /\ UNCHANGED scrapeVars
    /\ UNCHANGED frameVars
    /\ UNCHANGED runVars

---------------------------------------------------------------------------
(* A direct call scrape_website(config, max_pages) *)

\* the notebook's cells have not run
NotebookIdle ==
    /\ site = 1
    /\ all_data = <<>>
    /\ all_data_df = EmptyFrame
    /\ existing_data_df = EmptyFrame
    /\ new_data_df = EmptyFrame
    /\ combined_df = EmptyFrame
    /\ cleaned = EmptyFrame
    /\ file = Absent
    /\ run = 0
    /\ mode = "none"
    /\ file_at_start = Absent
    /\ file_merged = Absent

InitScrape ==
    /\ error = ""
    /\ neighborhoods \in NeighborhoodConfigs
    /\ max_pages \in 0..MaxPagesArg
    /\ pc = IF max_pages >= 1 THEN "links" ELSE "listings"
    /\ caller = "scrape"
    /\ page = 1
    /\ all_links = <<>>
    /\ todo = <<>>
    /\ listings = <<>>
    /\ fetched = <<>>
    /\ page_links = <<>>
    /\ extracted = <<>>
    /\ accepted_raw = <<>>
    /\ NotebookIdle

NextScrape ==
    \/ FetchPage
    \/ ExtractLink
    \/ FetchFails
    \/ ScrapeReturn

SpecScrape == InitScrape /\ [][NextScrape]_vars /\ WF_vars(NextScrape)

---------------------------------------------------------------------------
(* The listing loop of scrape_website on one collected link, whose detail  *)
(* page is any of Documents                                                *)

InitExtract ==
    /\ error = ""
    /\ neighborhoods \in NeighborhoodConfigs
    /\ pc = "listings"
    /\ caller = "extract"
    /\ max_pages = 1
    /\ page = 2
    /\ all_links = <<(<<1, 1>>)>>
    /\ todo = all_links
    /\ listings = <<>>
    /\ fetched = <<1>>
    /\ page_links = <<all_links>>
    /\ extracted = <<>>
    /\ accepted_raw = <<>>
    /\ NotebookIdle

NextExtract ==
    \/ ExtractLink
    \/ FetchFails
    \/ ScrapeReturn

SpecExtract == InitExtract /\ [][NextExtract]_vars

---------------------------------------------------------------------------
(* The notebook, run up to MaxRuns times *)

Init ==
    /\ error = ""
    /\ neighborhoods = NotebookNeighborhoods
    /\ pc = "idle"
    /\ caller = "notebook"
    /\ max_pages = DefaultMaxPages
    /\ page = 1
    /\ all_links = <<>>
    /\ todo = <<>>
    /\ listings = <<>>
    /\ fetched = <<>>
    /\ page_links = <<>>
    /\ extracted = <<>>
    /\ accepted_raw = <<>>
    /\ NotebookIdle

Next ==
    \/ StartRun
    \/ FetchPage
    \/ ExtractLink
    \/ FetchFails
    \/ ScrapeReturnToCell
    \/ Cell9Concat
    \/ Cell11Save
    \/ Cell13Load
    \/ Cell13Merge
    \/ Cell13Save
    \/ Cell15Clean
    \/ WriteFails

Spec == Init /\ [][Next]_vars

---------------------------------------------------------------------------
(* Cells 13 and 15 run once, on the file an earlier run left *)

\* the listings the earlier run accepted
PriorListings ==
    {extract_property_data(d, NotebookNeighborhoods) :
        d \in {x \in SiteDocs :
                  /\ ~ExtractRaises(x)
                  /\ Accept(extract_property_data(x, NotebookNeighborhoods))}}

\* no file, or the file cell 15 wrote for one or two of these listings
PriorFiles ==
    {Absent} \cup
    {to_csv(drop_duplicates(read_csv(to_csv(DataFrame(ls))), Columns)) :
        ls \in {<<a>> : a \in PriorListings} \cup
               {<<a, b>> : a \in PriorListings, b \in PriorListings}}

InitUpdate ==
    /\ error = ""
    /\ neighborhoods = NotebookNeighborhoods
    /\ pc = "cell13"
    /\ caller = "cell13"
    /\ max_pages = DefaultMaxPages
    /\ page = 1
    /\ all_links = <<>>
    /\ todo = <<>>
    /\ listings = <<>>
    /\ fetched = <<>>
    /\ page_links = <<>>
    /\ extracted = <<>>
    /\ accepted_raw = <<>>
    /\ site = 1
    /\ all_data = <<>>
    /\ all_data_df = EmptyFrame
    /\ existing_data_df = EmptyFrame
    /\ new_data_df = EmptyFrame
    /\ combined_df = EmptyFrame
    /\ cleaned = EmptyFrame
    /\ file \in PriorFiles
    /\ run = 1
    /\ mode = "update"
    /\ file_at_start = file
    /\ file_merged = Absent

NextUpdate ==
    \/ Cell13Load
    \/ FetchPage
    \/ ExtractLink
    \/ FetchFails
    \/ ScrapeReturnToCell
    \/ Cell13Merge
    \/ Cell13Save
    \/ Cell15Clean
    \/ WriteFails

SpecUpdate == InitUpdate /\ [][NextUpdate]_vars

---------------------------------------------------------------------------
(* Properties *)

Range(q) == {q[i] : i \in 1..Len(q)}

RECURSIVE Flatten(_)
Flatten(qs) == IF qs = <<>> THEN <<>> ELSE Head(qs) \o Flatten(Tail(qs))

\* the visits of the listing loop that returned a data dict
Returned == SelectSeq(extracted, LAMBDA e : "data" \in DOMAIN e)

\* the link-collection loop is over
CrawlOver == pc \in {"listings", "returned"}

\* in every state of a crawl: the pages are requested in order from page 1,
\* none beyond max_pages and none after a page that yielded no links; once
\* the loop is over, all_links is the concatenation of the links of the
\* pages before the first page without links, or of pages 1..max_pages
C3_CrawlState ==
    /\ \A i \in 1..Len(fetched) : fetched[i] = i
    /\ Len(fetched) <= max_pages
    /\ Len(page_links) <= Len(fetched)
    /\ \A i \in 1..Len(page_links) :
          page_links[i] = <<>> => i = Len(page_links) /\ Len(fetched) = i
    /\ CrawlOver =>
          LET n == Len(page_links) IN
          /\ Len(fetched) = n
          /\ IF n > 0 /\ page_links[n] = <<>>
             THEN all_links = Flatten(SubSeq(page_links, 1, n - 1))
             ELSE n = max_pages /\ all_links = Flatten(page_links)

\* C3: the link-collection loop requests pages 1..k in order and no page
\* after k, the first page without links; the collected list is the
\* concatenation of the links of pages 1..k-1 (of pages 1..max_pages when
\* no page is without links); and the loop always terminates.
C3_CrawlStopsAtFirstEmptyPage == [](C3_CrawlState) /\ <>(pc # "links")

\* a crawl that stopped on page 2 of 3 with the links of page 1 only
C3_Witness ==
    /\ pc = "returned"
    /\ max_pages = 3
    /\ Len(page_links) = 2
    /\ page_links[2] = <<>>
    /\ all_links = page_links[1]
    /\ all_links # <<>>

Suffixed(raw) == IF In(Alexandria, raw) THEN raw ELSE raw \o ", Alexandria"

\* locations as they can be extracted from a page
RawLocations == {strip(t) : t \in LocationTexts} \cup {NA}

\* C5: a location that contains a configured neighbourhood is stored, after
\* extract_property_data, the second pass and the merge, as the extracted
\* text followed by ", Alexandria" when the text lacks "Alexandria" (which
\* then occurs exactly once), and unchanged when the text contains it.
C5_StoredLocation ==
    /\ \A raw \in RawLocations : \A nbs \in NeighborhoodConfigs :
          (\E n \in nbs : In(n, raw)) =>
             LET stored == EnsureAlexandria(LocationRule(raw, nbs)) IN
             /\ stored = Suffixed(raw)
             /\ ~In(Alexandria, raw) => Count(Alexandria, stored) = 1
    /\ pc \in {"cell13_save", "cell15", "done"} =>
          /\ Len(new_data_df.rows) = Len(accepted_raw)
          /\ \A i \in 1..Len(accepted_raw) :
                /\ \E n \in neighborhoods : In(n, accepted_raw[i])
                /\ new_data_df.rows[i].location = Str(Suffixed(accepted_raw[i]))
                /\ \E r \in Range(combined_df.rows) :
                      r.location = Str(Suffixed(accepted_raw[i]))
    /\ pc \in {"cell15", "done"} =>
          \A i \in 1..Len(accepted_raw) :
             \E r \in Range(file.rows) : r.location = Suffixed(accepted_raw[i])

\* a finished run that stored a suffixed location and an unchanged one
C5_Witness ==
    /\ pc = "done"
    /\ ~Empty(existing_data_df)
    /\ \E i \in 1..Len(accepted_raw) :
          ~In(Alexandria, accepted_raw[i])
              /\ \E r \in Range(file.rows) :
                    r.location = accepted_raw[i] \o ", Alexandria"
    /\ \E i \in 1..Len(accepted_raw) : In(Alexandria, accepted_raw[i])

\* C6: extract_property_data never raises for a missing element and returns
\* all five fields: a field whose target element is missing (for an anchor
\* field: no label, or a label that no span follows) is the sentinel, every
\* other field is the stripped text of its element.
C6_MissingFieldIsSentinel ==
    /\ error # "AttributeError"
    /\ Len(Returned) = Len(extracted)
    /\ \A e \in Range(Returned) :
          /\ DOMAIN e.data = Columns
          /\ e.data.price =
                (IF e.doc.price.found THEN strip(e.doc.price.text) ELSE NA)
          /\ \A f \in AnchorFields :
                e.data[f] = (IF e.doc[f].label /\ e.doc[f].next.found
                             THEN strip(e.doc[f].next.text) ELSE NA)

\* the text rows cell 13's merge starts from: the file's, then the new ones
MergeInputText ==
    (IF file.kind = "csv" THEN file.rows ELSE <<>>)
    \o to_csv([columns |-> Columns, rows |-> new_data_df.rows]).rows

\* C1: the merged frame has exactly one record for each distinct five-field
\* key of the existing file and the new batch, and the record of a key the
\* existing dataset has is the existing one.
C1_OneRecordPerKey ==
    pc = "cell13_save" =>
       /\ Len(combined_df.rows) = Cardinality(Range(MergeInputText))
       /\ \A i \in 1..Cardinality(Range(existing_data_df.rows)) :
             combined_df.rows[i] \in Range(existing_data_df.rows)

\* a key as it identifies a listing across files: a missing value is the
\* same whatever its text, a number the same with or without ".0"
KeyText(t) ==
    IF t \in NAValues THEN ""
    ELSE IF IsFloatText(t) THEN SubSeq(t, 1, Len(t) - 2) ELSE t
KeysOf(f) ==
    IF f.kind = "csv"
    THEN {[c \in Columns |-> KeyText(r[c])] : r \in Range(f.rows)}
    ELSE {}

\* C2: a complete run of the notebook (scrape, save, load, merge, persist,
\* cleanup) loses no key of the dataset the file held before the run.
C2_DatasetOnlyGrows ==
    (pc = "done" /\ mode = "all") => KeysOf(file_at_start) \subseteq KeysOf(file)

\* C7: merging a merged dataset again, with an empty new batch, yields the
\* same dataset: same records, same multiplicities, same order.
C7_MergeWithEmptyBatchIsIdentity ==
    pc = "cell13_save" => Merge(combined_df, EmptyFrame) = combined_df

\* C8: when a run stops on a failed page or detail fetch, the file still
\* holds the dataset it held when the run started.
C8_FailedRunLeavesFile ==
    (pc = "raised" /\ error = "ConnectionError") => file = file_at_start

\* C9: the second pass changes no record of a batch scrape_website
\* produced, a second application changes nothing, and every location
\* contains "Alexandria" after it.
C9_SecondPass ==
    /\ \A x \in RawLocations :
          /\ EnsureAlexandria(EnsureAlexandria(x)) = EnsureAlexandria(x)
          /\ In(Alexandria, EnsureAlexandria(x))
    /\ pc \in {"cell13_save", "cell15", "done"} =>
          /\ new_data_df = concat(all_data)
          /\ LocationPass(new_data_df) = new_data_df
          /\ \A r \in Range(new_data_df.rows) : In(Alexandria, r.location.v)

\* the pass has run on a batch of two listings
C9_Witness ==
    /\ pc = "cell13_save"
    /\ Len(new_data_df.rows) = 2
    /\ new_data_df.rows[1] # new_data_df.rows[2]

\* C10: the cleanup pass leaves no two equal rows in the file and keeps the
\* order of the rows it keeps, running it again changes nothing, and it
\* removes no row of a file written by a merge with a non-empty existing
\* dataset.
C10_Cleanup ==
    pc = "done" =>
       /\ Cardinality(Range(file.rows)) = Len(file.rows)
       /\ to_csv(drop_duplicates(read_csv(file), Columns)) = file
       /\ cleaned.rows = DropRows(read_csv(file_merged).rows, Columns)
       /\ ~Empty(existing_data_df) => Len(file.rows) = Len(file_merged.rows)

====
